---- MODULE Spec2Model ----
(***************************************************************************)
(* The online parser of graphql-language-service (onlineParser.ts): the    *)
(* rule-stack state machine that getToken() drives one lexical token at a   *)
(* time.  A State is the record of the fields the parser reads and writes;  *)
(* the prevState chain is a sequence of cloned frames, innermost first.     *)
(* The character stream, the lex table and the grammar tables are inputs of *)
(* the parser: streams are drawn per call, the tables per session.          *)
(***************************************************************************)
EXTENDS Integers, Sequences, FiniteSets, TLC

\* Longest stream text handed to one call.
MaxLen == 2
\* Deepest prevState chain a session is followed to.
MaxDepth == 3
\* Iterations of the matching loop followed before the call is given up as
\* not returning.
MaxIter == 12
\* editorConfig.tabSize default.
TabSize == 2
MaxIndent == 4

\* null in a field that holds a rule name; NoValue is null in a field that
\* holds a token's text.
Null == "null"
NoValue == <<>>

(***************************************************************************)
(* Character stream and lexer                                              *)
(***************************************************************************)
\* "{", "}", "," and "@" are punctuators, "a" a name character, "#" opens a
\* comment, " " is ignored, "?" matches no lex rule, and "\f" (form feed)
\* matches no lex rule, is not ignored, and is white space to a regular
\* expression.
Chars == {"{", "}", ",", "@", "a", "#", " ", "?", "\f"}

\* isIgnored: what options.eatWhitespace consumes.
Ignored == {" "}

\* The complement of \S in /\S+/.
RegexSpace == {" ", "\f"}

Texts == UNION {[1..n -> Chars] : n \in 1..MaxLen}

Min(S) == CHOOSE x \in S : \A y \in S : x <= y

\* Number of consecutive characters of S at the cursor (pos is 0-based).
RunLen(text, pos, S) ==
  LET stops == {i \in (pos + 1)..Len(text) : text[i] \notin S}
  IN IF stops = {} THEN Len(text) - pos ELSE Min(stops) - 1 - pos

\* stream.indentation(): the width of the line's leading white space.
Indentation(text) == RunLen(text, 0, {" "})

\* An ordered lex table.  A pattern is anchored at the cursor and consumes
\* characters of one class: exactly one, a run of at least one (min = 1), or
\* a run that may be empty (min = 0).
LexRules ==
  << [kind |-> "Name", chars |-> {"a"}, many |-> TRUE, min |-> 1],
     [kind |-> "Punctuation", chars |-> {"{", "}", ",", "@"}, many |-> FALSE, min |-> 1],
     [kind |-> "Comment", chars |-> {"#"}, many |-> FALSE, min |-> 1] >>

\* Tables a host may configure instead: one whose later pattern would match a
\* longer prefix than an earlier one, and one whose first pattern accepts a
\* run of any length.
LexTables ==
  { LexRules,
    << [kind |-> "Punctuation", chars |-> {"{", "}", ",", "@"}, many |-> FALSE, min |-> 1],
       [kind |-> "Name", chars |-> {"a", "@"}, many |-> TRUE, min |-> 1],
       [kind |-> "Comment", chars |-> {"#"}, many |-> FALSE, min |-> 1] >>,
    << [kind |-> "Comment", chars |-> {"#"}, many |-> FALSE, min |-> 1],
       [kind |-> "Name", chars |-> {"a"}, many |-> TRUE, min |-> 0],
       [kind |-> "Punctuation", chars |-> {"{", "}", ",", "@"}, many |-> FALSE, min |-> 1] >> }

NoMatch == 0 - 1

\* stream.match(pattern): the length of the match array's first entry, or
\* NoMatch when the pattern does not match at the cursor.
MatchLen(text, pos, pat) ==
  LET n == IF pat.many THEN RunLen(text, pos, pat.chars)
           ELSE IF pos < Len(text) /\ text[pos + 1] \in pat.chars THEN 1 ELSE 0
  IN IF n >= pat.min THEN n ELSE NoMatch

NoToken == [found |-> FALSE, kind |-> Null, value |-> <<>>, len |-> 0]

\* lex(lexRules, stream): the first rule, in table order, for which
\* stream.match returns a match array; the stream moves by token.len.
lex(lexRules, text, pos) ==
  LET hits == {i \in 1..Len(lexRules) : MatchLen(text, pos, lexRules[i]) # NoMatch}
  IN IF hits = {} THEN NoToken
     ELSE LET i == Min(hits)
              n == MatchLen(text, pos, lexRules[i])
          IN [found |-> TRUE, kind |-> lexRules[i].kind,
              value |-> SubSeq(text, pos + 1, pos + n), len |-> n]

\* Lines that start with a deeper margin of spaces.
Margins == {[i \in 1..k |-> " "] : k \in 1..MaxIndent}

\* What one call reads of its stream: sol(), indentation(), the run that
\* eatWhitespace consumes, the token lex returns when nothing was eaten, and
\* the run that match(/\S+/) consumes when there is no token.
View(text, pos) ==
  LET ws == RunLen(text, pos, Ignored)
      tok == IF ws > 0 THEN NoToken ELSE lex(LexRules, text, pos)
  IN [sol |-> pos = 0,
      indentation |-> IF pos = 0 THEN Indentation(text) ELSE 0,
      ws |-> ws,
      tok |-> tok,
      nonspace |-> IF ws > 0 \/ tok.found THEN 0
                   ELSE RunLen(text, pos, Chars \ RegexSpace)]

\* The streams with input remaining, as the calls read them.
Views == {View(text, pos) : <<text, pos>> \in {<<t, k>> \in Texts \X (0..(MaxLen - 1)) : k < Len(t)}}

\* The starts of the lines that begin with a margin.
MarginViews == {View(text, 0) : text \in Margins}

(***************************************************************************)
(* Grammar elements (Rule variants) and parse tables                       *)
(***************************************************************************)
None == [t |-> "none"]
Undefined == [t |-> "undefined"]
Ref(n) == [t |-> "ref", name |-> n]
Term(k, v, any, sty, upd) ==
  [t |-> "term", kind |-> k, val |-> v, anyVal |-> any, style |-> sty, upd |-> upd]
Opt(e) == [t |-> "opt", ofRule |-> e]
List(e) == [t |-> "list", ofRule |-> e, separator |-> Undefined]
ListSep(e, s) == [t |-> "list", ofRule |-> e, separator |-> s]

Arr(items) == [isArr |-> TRUE, items |-> items]
\* A function rule: the result for a token kind, and the result for any
\* other token.
Fork(cases) == [isArr |-> FALSE, arity |-> 1, cases |-> cases, other |-> None]

\* A value that is neither a rule name nor a Rule: truthy, without ofRule,
\* separator or match.
Object == [t |-> "object"]

\* What a table that is an object literal inherits: rules[key] of a key the
\* table does not hold is Object.prototype[key].  rules["constructor"] is
\* the function Object (length 1), which returns its argument, the token.
ObjectPrototype ==
  [constructor |-> [isArr |-> FALSE, arity |-> 1, cases |-> <<>>, other |-> Object]]
Case(k, to) == [kind |-> k, to |-> to]

p(v) == Term("Punctuation", <<v>>, FALSE, "punctuation", FALSE)
name(sty) == Term("Name", <<>>, TRUE, sty, TRUE)

GrammarIds ==
  {"DocList", "Seq", "Nested", "LeftRec", "NullList", "Empty", "Dangling",
   "OptSep"}

ParseRules(gid) ==
  CASE gid = "DocList" ->
         [Document |-> Arr(<<p("{"), ListSep(Ref("Field"), p(",")), p("}")>>),
          Field |-> Arr(<<name("property")>>)]
    [] gid = "Seq" ->
         [Document |-> Arr(<<name("keyword"), Opt(p(",")), p("}")>>)]
    [] gid = "Nested" ->
         [Document |-> Arr(<<List(Ref("Selection"))>>),
          Selection |-> Fork(<<Case("Name", Ref("Field")),
                               Case("Punctuation", Ref("SelectionSet"))>>),
          Field |-> Arr(<<name("property"), Opt(Ref("SelectionSet"))>>),
          SelectionSet |-> Arr(<<p("{"),
                                 ListSep(Ref("Selection"), Opt(p(","))),
                                 p("}")>>)]
    [] gid = "LeftRec" ->
         [Document |-> Arr(<<p("{"), Ref("Tail"), p("}")>>),
          Tail |-> Arr(<<Opt(p("@")), Ref("Tail"), p(",")>>)]
    [] gid = "NullList" ->
         [Document |-> Arr(<<List(Ref("Maybe")), p("}")>>),
          Maybe |-> Arr(<<Opt(name("atom"))>>)]
    [] gid = "Empty" ->
         [Document |-> Arr(<<p("{"), Ref("Nothing"), p("}")>>),
          Nothing |-> Arr(<<>>)]
    [] gid = "OptSep" ->
         [Document |-> Arr(<<p("{"), ListSep(name("property"), Opt(p(","))),
                             p("}")>>)]
    [] gid = "Braces" ->
         [Document |-> Arr(<<p("{"), Opt(Ref("Block")), p("}")>>),
          Block |-> Arr(<<p("{"), Opt(name("property")), p("}")>>)]
    [] gid = "Dangling" ->
         [Document |-> Arr(<<Opt(Ref("constructor")), p("{"), Ref("Missing"),
                             p("}")>>)]

SpecialParseRules == [Invalid |-> Arr(<<>>), Comment |-> Arr(<<>>)]

\* rules[ruleKind] is truthy: the table holds the key or inherits it.
Has(rules, key) == key \in DOMAIN rules \/ key \in DOMAIN ObjectPrototype

\* The array or function a State's rule field refers to.
RuleBody(rules, key) ==
  IF key \in DOMAIN SpecialParseRules THEN SpecialParseRules[key]
  ELSE IF key \in DOMAIN rules THEN rules[key]
  ELSE ObjectPrototype[key]

IsArray(rules, key) == key # Null /\ RuleBody(rules, key).isArr

\* rule.length: the length of an array, the arity of a function.
RuleLen(rules, key) ==
  LET b == RuleBody(rules, key) IN IF b.isArr THEN Len(b.items) ELSE b.arity

\* state.rule[state.step] of an array rule.
At(rules, s) ==
  LET b == RuleBody(rules, s.rule)
  IN IF s.step < Len(b.items) THEN b.items[s.step + 1] ELSE Undefined

\* state.rule(token, stream) of a forking rule.
Select(rules, key, tok) ==
  LET cs == RuleBody(rules, key).cases
      hits == {i \in 1..Len(cs) : cs[i].kind = tok.kind}
  IN IF hits = {} THEN RuleBody(rules, key).other ELSE cs[Min(hits)].to

Truthy(e) == e.t \notin {"none", "undefined"}
OfRule(e) == IF e.t \in {"opt", "list"} THEN e.ofRule ELSE Undefined
Separator(e) == IF e.t = "list" THEN e.separator ELSE Undefined
Matches(e, tok) == e.kind = tok.kind /\ (e.anyVal \/ e.val = tok.value)

(***************************************************************************)
(* State and the rule stack                                                *)
(***************************************************************************)
NewState ==
  [kind |-> Null, name |-> NoValue, type |-> NoValue, rule |-> Null, step |-> 0,
   needsSeperator |-> FALSE, prevState |-> <<>>, levels |-> <<>>,
   indentLevel |-> 0, needsAdvance |-> FALSE]

\* state.clone(): a copy of every field; its prevState is the rest of the chain.
clone(s) ==
  [kind |-> s.kind, name |-> s.name, type |-> s.type, rule |-> s.rule,
   step |-> s.step, needsSeperator |-> s.needsSeperator, levels |-> s.levels,
   indentLevel |-> s.indentLevel, needsAdvance |-> s.needsAdvance]

Ok(s) == [st |-> s, out |-> "ok"]
Err(s) == [st |-> s, out |-> "error"]
Hang(s) == [st |-> s, out |-> "diverge"]

pushRule(rules, s, ruleKind) ==
  IF ~Has(rules, ruleKind) THEN Err(s)
  ELSE Ok([s EXCEPT !.prevState = <<clone(s)>> \o s.prevState,
                    !.kind = ruleKind, !.name = NoValue, !.type = NoValue,
                    !.rule = ruleKind, !.step = 0, !.needsSeperator = FALSE])

\* popRule that does not restore the separator flag.
popRule_KeepsFlag(s) ==
  IF s.prevState = <<>> THEN s
  ELSE LET f == Head(s.prevState)
       IN [s EXCEPT !.kind = f.kind, !.name = f.name, !.type = f.type,
                    !.rule = f.rule, !.step = f.step,
                    !.prevState = Tail(s.prevState)]

popRule(s) ==
  IF s.prevState = <<>> THEN s
  ELSE LET f == Head(s.prevState)
       IN [s EXCEPT !.kind = f.kind, !.name = f.name, !.type = f.type,
                    !.rule = f.rule, !.step = f.step,
                    !.needsSeperator = f.needsSeperator,
                    !.prevState = Tail(s.prevState)]

\* "true", "false", or "error" when rule[step] is undefined.
isList(rules, s) ==
  IF ~IsArray(rules, s.rule) THEN "false"
  ELSE LET e == At(rules, s)
       IN IF e.t = "undefined" THEN "error"
          ELSE IF e.t = "list" THEN "true" ELSE "false"

\* The loop that takes only an array past its end for completed: a forking
\* rule is left on top once its expansion is complete.
RECURSIVE CompleteLoop_ArraysOnly(_, _)
CompleteLoop_ArraysOnly(rules, s) ==
  IF s.rule # Null /\ IsArray(rules, s.rule) /\ s.step >= RuleLen(rules, s.rule)
  THEN IF s.prevState = <<>> THEN Hang(s)
       ELSE LET q == popRule(s)
            IN IF q.rule = Null THEN Ok(q)
               ELSE IF isList(rules, q) = "error" THEN Err(q)
               ELSE IF isList(rules, q) = "true"
               THEN CompleteLoop_ArraysOnly(rules,
                      IF Truthy(Separator(At(rules, q)))
                      THEN [q EXCEPT !.needsSeperator = ~@] ELSE q)
               ELSE CompleteLoop_ArraysOnly(rules,
                      [q EXCEPT !.needsSeperator = FALSE, !.step = q.step + 1])
  ELSE Ok(s)

\* The loop with a List parent advanced like any other parent.
RECURSIVE CompleteLoop_AdvancesList(_, _)
CompleteLoop_AdvancesList(rules, s) ==
  IF s.rule # Null /\ ~(IsArray(rules, s.rule) /\ s.step < RuleLen(rules, s.rule))
  THEN IF s.prevState = <<>> THEN Hang(s)
       ELSE LET q == popRule(s)
            IN IF q.rule = Null THEN Ok(q)
               ELSE CompleteLoop_AdvancesList(rules,
                      [q EXCEPT !.needsSeperator = FALSE, !.step = q.step + 1])
  ELSE Ok(s)

\* state.needsSeperator = false; state.step++
Stepped(s) == [s EXCEPT !.needsSeperator = FALSE, !.step = @ + 1]

\* The List branch: the separator flag is toggled when the List has one.
Toggled(rules, s) ==
  IF Truthy(Separator(At(rules, s))) THEN [s EXCEPT !.needsSeperator = ~@] ELSE s

RECURSIVE CompleteLoop(_, _)

\* The body of the loop after its popRule, on the parent q: a List parent is
\* not advanced so that it can repeat, any other parent is.
Popped(rules, q) ==
  IF q.rule = Null THEN Ok(q)
  ELSE IF isList(rules, q) = "error" THEN Err(q)
  ELSE IF isList(rules, q) = "true" THEN CompleteLoop(rules, Toggled(rules, q))
  ELSE CompleteLoop(rules, Stepped(q))

\* The loop of advanceRule: pop every completed frame, advancing its parent.
CompleteLoop(rules, s) ==
  IF s.rule # Null /\ ~(IsArray(rules, s.rule) /\ s.step < RuleLen(rules, s.rule))
  THEN IF s.prevState = <<>> THEN Hang(s) ELSE Popped(rules, popRule(s))
  ELSE Ok(s)

\* advanceRule that leaves the separator flag of a List position as it is.
advanceRule_NoToggle(rules, s, successful) ==
  IF isList(rules, s) = "error" THEN Err(s)
  ELSE IF isList(rules, s) = "true" /\ successful THEN Ok(s)
  ELSE CompleteLoop(rules, [s EXCEPT !.needsSeperator = FALSE, !.step = s.step + 1])

\* The List branch of advanceRule returns when the list is to repeat: after
\* an optional separator, or after a successful parse.
Repeats(rules, s, successful) ==
  \/ /\ Truthy(Separator(At(rules, s)))
     /\ ~Toggled(rules, s).needsSeperator
     /\ Truthy(OfRule(Separator(At(rules, s))))
  \/ successful

advanceRule(rules, s, successful) ==
  IF isList(rules, s) = "error" THEN Err(s)
  ELSE IF isList(rules, s) = "true" /\ Repeats(rules, s, successful)
  THEN Ok(Toggled(rules, s))
  ELSE CompleteLoop(rules,
         Stepped(IF isList(rules, s) = "true" THEN Toggled(rules, s) ELSE s))

\* The unwinding that does not stop at an Optional or List position.
RECURSIVE UnwindLoop_PopAll(_, _)
UnwindLoop_PopAll(rules, s) ==
  IF s.rule = Null THEN Ok(s)
  ELSE IF s.prevState = <<>> THEN Hang(s)
  ELSE UnwindLoop_PopAll(rules, popRule(s))

\* The loop of unsuccessful: pop up to the nearest Optional or List position.
RECURSIVE UnwindLoop(_, _)
UnwindLoop(rules, s) ==
  IF s.rule = Null THEN Ok(s)
  ELSE IF IsArray(rules, s.rule) /\ At(rules, s).t = "undefined" THEN Err(s)
  ELSE IF IsArray(rules, s.rule) /\ Truthy(OfRule(At(rules, s))) THEN Ok(s)
  ELSE IF s.prevState = <<>> THEN Hang(s)
  ELSE UnwindLoop(rules, popRule(s))

\* unsuccessful without its closing advanceRule: the Optional or List
\* position it stopped at is never moved past.
unsuccessful_NoAdvance(rules, s) == UnwindLoop(rules, s)

\* After the loop of unsuccessful: a rule that is left is an Optional or
\* List position, which is moved past.
MovePast(rules, u) ==
  IF u.out = "ok" /\ u.st.rule # Null THEN advanceRule(rules, u.st, FALSE) ELSE u

unsuccessful(rules, s) == MovePast(rules, UnwindLoop(rules, s))

\* A Terminal's update hook: records the token as the frame's name.
update(s, tok) == [s EXCEPT !.name = tok.value]

(***************************************************************************)
(* getToken                                                                *)
(***************************************************************************)
\* The loop `while (state.rule)` of getToken; n counts its iterations and at
\* is the State in which the loop stopped, before the advance of a match.
\* `expected` that never asks for the separator.
Expected_NoSeparator(rules, s, tok) ==
  LET e0 == IF IsArray(rules, s.rule) THEN At(rules, s)
            ELSE IF s.step = 0 THEN Select(rules, s.rule, tok) ELSE None
  IN IF Truthy(e0) /\ Truthy(OfRule(e0)) THEN OfRule(e0) ELSE e0

\* `expected` of one iteration: the element at the step or the fork's
\* choice, replaced by its separator when one is pending, unwrapped.
Expected(rules, s, tok) ==
  LET e0 == IF IsArray(rules, s.rule) THEN At(rules, s)
            ELSE IF s.step = 0 THEN Select(rules, s.rule, tok) ELSE None
      e1 == IF s.needsSeperator /\ Truthy(e0) THEN Separator(e0) ELSE e0
  IN IF Truthy(e1) /\ Truthy(OfRule(e1)) THEN OfRule(e1) ELSE e1

\* The terminal matched in s1: r is the advance made, or the State marked
\* for a deferred advance.
Matched(r, s1, style, n) ==
  [st |-> r.st, out |-> IF r.out = "ok" THEN "match" ELSE r.out,
   style |-> style, iters |-> n, at |-> s1]

\* Every match advances the rule in the call that made it.
Advance_Immediate(rules, s1, tok) == advanceRule(rules, s1, TRUE)

Advance(rules, s1, tok) ==
  IF tok.kind = "Punctuation" THEN advanceRule(rules, s1, TRUE)
  ELSE Ok([s1 EXCEPT !.needsAdvance = TRUE])

RECURSIVE MatchLoop(_, _, _, _)

\* The loop goes on in the State that pushRule or unsuccessful left, unless
\* that raised or did not return.
Again(rules, r, s, tok, n) ==
  IF r.out = "ok" THEN MatchLoop(rules, r.st, tok, n)
  ELSE [st |-> r.st, out |-> r.out, style |-> Null, iters |-> n, at |-> s]

MatchLoop(rules, s, tok, n) ==
  IF s.rule = Null
  THEN [st |-> s, out |-> "empty", style |-> Null, iters |-> n, at |-> s]
  ELSE IF n >= MaxIter
  THEN [st |-> s, out |-> "diverge", style |-> Null, iters |-> n, at |-> s]
  ELSE
    LET expected == Expected(rules, s, tok)
        s1 == IF expected.t = "term" /\ expected.upd THEN update(s, tok) ELSE s
    IN IF expected.t = "ref"
       THEN Again(rules, pushRule(rules, s, expected.name), s, tok, n + 1)
       ELSE IF expected.t = "term" /\ Matches(expected, tok)
       THEN Matched(Advance(rules, s1, tok), s1, expected.style, n + 1)
       ELSE Again(rules, unsuccessful(rules, s), s, tok, n + 1)

\* Seal that leaves an empty rule on the stack: a sentinel frame stays on
\* top for the token that follows it.
Seal_NoPop(rules, s) ==
  IF s.needsAdvance THEN advanceRule(rules, [s EXCEPT !.needsAdvance = FALSE], TRUE)
  ELSE Ok(s)

\* Start of a call: pop an empty rule, else perform the deferred advance.
Seal(rules, s) ==
  IF s.rule # Null /\ RuleLen(rules, s.rule) = 0 THEN Ok(popRule(s))
  ELSE IF s.needsAdvance THEN advanceRule(rules, [s EXCEPT !.needsAdvance = FALSE], TRUE)
  ELSE Ok(s)

\* A start of line that also forgets the pending separator.
Indent_DropsSeparator(s, v) ==
  IF v.sol THEN [s EXCEPT !.indentLevel = v.indentation \div TabSize,
                          !.needsSeperator = FALSE]
  ELSE s

\* Start of a line: recompute the indentation level.
Indent(s, v) ==
  IF v.sol THEN [s EXCEPT !.indentLevel = v.indentation \div TabSize] ELSE s

\* A variant that removes the last level and leaves indentLevel alone.
Levels_NoClamp(s, tok) ==
  IF tok.kind # "Punctuation" THEN s
  ELSE IF tok.value[1] \in {"{", "(", "["}
  THEN [s EXCEPT !.levels = Append(@, s.indentLevel + 1)]
  ELSE IF tok.value[1] \in {"}", ")", "]"}
  THEN [s EXCEPT !.levels = SubSeq(@, 1, Len(@) - 1)]
  ELSE s

\* The bracket-depth bookkeeping of a punctuation token.
Levels(s, tok) ==
  IF tok.kind # "Punctuation" THEN s
  ELSE IF tok.value[1] \in {"{", "(", "["}
  THEN [s EXCEPT !.levels = Append(@, s.indentLevel + 1)]
  ELSE IF tok.value[1] \in {"}", ")", "]"}
  THEN LET levels == SubSeq(s.levels, 1, Len(s.levels) - 1)
       IN IF s.indentLevel # 0 /\ Len(levels) > 0
             /\ levels[Len(levels)] < s.indentLevel
          THEN [s EXCEPT !.levels = levels, !.indentLevel = levels[Len(levels)]]
          ELSE [s EXCEPT !.levels = levels]
  ELSE s

\* The outcome of one call: the State it leaves, the style it returns, the
\* number of characters the stream position moved, and how the call left
\* (exit).  backup is the State when the snapshot of line 110 is (or would
\* be) taken.
Result(s, sty, moved, exit, backup, tok, iters) ==
  [st |-> s, style |-> sty, moved |-> moved, exit |-> exit, backup |-> backup,
   tok |-> [kind |-> tok.kind, value |-> tok.value], iters |-> iters]

\* A copy of the rule-stack fields only: levels and indentLevel are left as
\* they are in to.
assign_RuleOnly(to, from) ==
  [to EXCEPT !.kind = from.kind, !.name = from.name, !.type = from.type,
             !.rule = from.rule, !.step = from.step,
             !.needsSeperator = from.needsSeperator,
             !.prevState = from.prevState,
             !.needsAdvance = from.needsAdvance]

\* Object.assign(to, from) with from a copy of a State: every field of from
\* is written over to.
assign(to, from) ==
  [to EXCEPT !.kind = from.kind, !.name = from.name, !.type = from.type,
             !.rule = from.rule, !.step = from.step,
             !.needsSeperator = from.needsSeperator,
             !.prevState = from.prevState, !.levels = from.levels,
             !.indentLevel = from.indentLevel,
             !.needsAdvance = from.needsAdvance]

\* Lines 181-185 and the returns of the loop: m is what the loop left of
\* the State and backupState the copy made before it.
Matching(m, backupState, tok) ==
  IF m.out = "match"
  THEN Result(m.st, m.style, tok.len, "match", backupState, tok, m.iters)
  ELSE IF m.out = "empty"
  THEN Result(pushRule(SpecialParseRules, assign(m.st, backupState), "Invalid").st,
              "invalidchar", tok.len, "mismatch", backupState, tok, m.iters)
  ELSE Result(m.st, "ERROR", tok.len, m.out, backupState, tok, m.iters)

\* Lines 88-131: s1 is the State after sealing and indentation.
Lexed(rules, s1, v) ==
  IF v.ws > 0 THEN Result(s1, "ws", v.ws, "ws", s1, NoToken, 0)
  ELSE IF ~v.tok.found
  THEN Result(pushRule(SpecialParseRules, s1, "Invalid").st, "invalidchar",
              v.nonspace, "nolex", s1, v.tok, 0)
  ELSE IF v.tok.kind = "Comment"
  THEN Result(pushRule(SpecialParseRules, s1, "Comment").st, "comment",
              v.tok.len, "comment", s1, v.tok, 0)
  ELSE Matching(MatchLoop(rules, Levels(s1, v.tok), v.tok, 0),
                assign(NewState, s1), v.tok)

\* Lines 82-86 onwards: sealed is what lines 74-80 left of the State s.
Sealing(rules, s, sealed, v) ==
  IF sealed.out # "ok" THEN Result(sealed.st, "ERROR", 0, sealed.out, s, NoToken, 0)
  ELSE Lexed(rules, Indent(sealed.st, v), v)

getToken(rules, s, v) == Sealing(rules, s, Seal(rules, s), v)

\* onlineParser().startState()
startState(rules) == pushRule(rules, NewState, "Document").st

(***************************************************************************)
(* The session: the host starts a State and steps it over streams          *)
(***************************************************************************)
VARIABLES
  gid,      \* the name of the grammar table the session is configured with
  parseRules, \* options.parseRules
  state,    \* the State the host carries from call to call
  whole,    \* the State of the same buffer tokenized in one continuous pass
  last,     \* what the latest call was given and what it returned
  stream    \* a lex table and a CharacterStream that lex is applied to

vars == <<gid, parseRules, state, whole, last, stream>>

Depth(s) == Len(s.prevState)

NoCall ==
  [style |-> Null, exit |-> "start", sol |-> FALSE, moved |-> 0,
   tok |-> [kind |-> Null, value |-> <<>>], iters |-> 0,
   backup |-> NewState, wholeStyle |-> Null, resumed |-> FALSE]

\* No stream is open while a session's States are followed.
Closed == [lexRules |-> <<>>, text |-> <<>>, start |-> 0, pos |-> 0, lexed |-> FALSE, token |-> NoToken]

Start(G) ==
  /\ gid \in G
  /\ parseRules = ParseRules(gid)
  /\ state = startState(parseRules)
  /\ whole = startState(parseRules)
  /\ last = NoCall
  /\ stream = Closed

Init == Start(GrammarIds)

\* The host abandons the State and starts a new session.
StartState ==
  /\ last.exit \notin {"start", "diverge"}
  /\ state' = startState(parseRules)
  /\ whole' = startState(parseRules)
  /\ last' = NoCall
  /\ UNCHANGED <<gid, parseRules, stream>>

Called(r, v, wholeStyle, resumed) ==
  [style |-> r.style, exit |-> r.exit, sol |-> v.sol, moved |-> r.moved,
   tok |-> r.tok, iters |-> r.iters, backup |-> r.backup,
   wholeStyle |-> wholeStyle, resumed |-> resumed]

\* The State a call leaves.  A call that does not return leaves none: the
\* State is kept as it was given.
Left(s, r) == IF r.exit = "diverge" THEN s ELSE r.st

\* token(stream, state): one call on the State the host carries, on a
\* stream among V.
TokenOn(V) ==
  /\ last.exit \notin {"error", "diverge"}
  /\ \E v \in V : \E r \in {getToken(parseRules, state, v)} :
       /\ r.exit = "diverge" \/ Depth(r.st) <= MaxDepth
       /\ state' = Left(state, r)
       /\ last' = Called(r, v, Null, FALSE)
  /\ UNCHANGED <<gid, parseRules, whole, stream>>

Token == TokenOn(Views)

Next == StartState \/ Token

Spec == Init /\ [][Next]_vars

(***************************************************************************)
(* Properties                                                              *)
(***************************************************************************)
Returned == last.exit \in {"ws", "nolex", "comment", "match", "mismatch"}

\* C1: every call that returns leaves the stream position strictly greater
\* than it found it, on each exit (white space, no lexical match, comment,
\* grammar match or mismatch).
C1_Advances == Returned => last.moved > 0

(***************************************************************************)
(* Grammar tables whose matching loop cannot re-enter a rule without a      *)
(* token being matched.                                                     *)
(***************************************************************************)
Keys(g) == DOMAIN ParseRules(g)
Inner(e) == IF Truthy(OfRule(e)) THEN OfRule(e) ELSE e
Mandatory(e) == Truthy(e) /\ ~Truthy(OfRule(e))

\* The rule can be completed and popped without any token being matched.
RECURSIVE Nullable(_, _, _)
Nullable(g, k, n) ==
  IF k \notin Keys(g) THEN FALSE
  ELSE IF n = 0 THEN TRUE
  ELSE LET b == ParseRules(g)[k]
       IN IF b.isArr
          THEN /\ Len(b.items) > 0
               /\ \A i \in 1..Len(b.items) :
                    \/ Truthy(OfRule(b.items[i]))
                    \/ b.items[i].t = "ref" /\ Nullable(g, b.items[i].name, n - 1)
          ELSE \E i \in 1..Len(b.cases) :
                 b.cases[i].to.t = "ref" /\ Nullable(g, b.cases[i].to.name, n - 1)

Passable(g, e) ==
  Truthy(OfRule(e)) \/ (e.t = "ref" /\ Nullable(g, e.name, Cardinality(Keys(g))))

\* The rules a frame of rule k can push before it has matched a token.
LeftRefs(g, k) ==
  LET b == ParseRules(g)[k]
  IN IF b.isArr
     THEN {Inner(b.items[i]).name : i \in
             {j \in 1..Len(b.items) :
                /\ Inner(b.items[j]).t = "ref"
                /\ \A h \in 1..(j - 1) : Passable(g, b.items[h])}}
     ELSE {Inner(b.cases[i].to).name : i \in
             {j \in 1..Len(b.cases) : Inner(b.cases[j].to).t = "ref"}}

RECURSIVE LeftReach(_, _, _)
LeftReach(g, k, n) ==
  IF n = 0 \/ k \notin Keys(g) THEN {}
  ELSE LeftRefs(g, k) \cup UNION {LeftReach(g, j, n - 1) : j \in LeftRefs(g, k)}

NoLeftRecursion(g) ==
  \A k \in Keys(g) : k \notin LeftReach(g, k, Cardinality(Keys(g)))

\* No List without a mandatory separator repeats an element that can be
\* completed without a token.
NoEmptyRepeat(g) ==
  \A k \in Keys(g) :
    LET b == ParseRules(g)[k]
    IN b.isArr =>
         \A i \in 1..Len(b.items) :
           (b.items[i].t = "list" /\ ~Mandatory(b.items[i].separator)
              /\ b.items[i].ofRule.t = "ref")
           => ~Nullable(g, b.items[i].ofRule.name, Cardinality(Keys(g)))

WellFounded == {g \in GrammarIds : NoLeftRecursion(g) /\ NoEmptyRepeat(g)}

(***************************************************************************)
(* Two hosts over one buffer: `whole` is stepped over the buffer as one     *)
(* stream, `state` is carried to a new stream holding the rest of the       *)
(* buffer whenever the host splits it.                                      *)
(***************************************************************************)
\* The rest of a stream from pos on, as a stream of its own.
Rest(text, pos) == SubSeq(text, pos + 1, Len(text))

\* A split between two calls: what the call reads at pos of the one stream,
\* and what it reads at the start of the new stream.
Splits ==
  {<<View(text, pos), View(Rest(text, pos), 0)>> :
     <<text, pos>> \in {<<t, k>> \in Texts \X (1..(MaxLen - 1)) : k < Len(t)}}

Both(continuous, split, resumed) ==
  \E w \in {getToken(parseRules, whole, continuous)} :
    \E r \in {getToken(parseRules, state, split)} :
      /\ r.exit = "diverge" \/ Depth(r.st) <= MaxDepth
      /\ whole' = Left(whole, w)
      /\ state' = Left(state, r)
      /\ last' = Called(r, split, w.style, resumed)

\* Both hosts call token() at the same position of the same stream.
Continue ==
  /\ last.exit \notin {"error", "diverge"}
  /\ \E v \in Views : Both(v, v, FALSE)
  /\ UNCHANGED <<gid, parseRules, stream>>

\* The second host continues on a new stream with the State it carried.
Resume ==
  /\ last.exit \notin {"error", "diverge"}
  /\ \E pair \in Splits : Both(pair[1], pair[2], TRUE)
  /\ UNCHANGED <<gid, parseRules, stream>>

NextResume == StartState \/ Continue \/ Resume

\* The two hosts are compared under the tables with which every call returns.
InitResume == Start(WellFounded)

SpecResume == InitResume /\ [][NextResume]_vars

\* C2 (as first stated): every call returns or raises, whatever the grammar.
C2_AlwaysTerminates == last.exit # "diverge"

\* C2: with a grammar table that has no left recursion and no List repeating
\* an element that needs no token, the matching loop ends in a terminal
\* match, an empty rule stack or a raised error within MaxIter iterations,
\* and the call moves the stream by the one token it lexed.
C2_Terminates ==
  gid \in WellFounded =>
    /\ last.exit # "diverge"
    /\ last.iters <= MaxIter
    /\ last.exit \in {"match", "mismatch", "comment"}
         => last.moved = Len(last.tok.value)

C2_Witness ==
  /\ gid \in WellFounded
  /\ last.exit = "mismatch"
  /\ last.iters >= 3

\* The names a table refers to, and the tables whose every name reference
\* names a rule of the table.
Referred(e) ==
  (IF e.t = "ref" THEN {e.name} ELSE {})
    \cup (IF Truthy(OfRule(e)) /\ OfRule(e).t = "ref" THEN {OfRule(e).name} ELSE {})
    \cup (IF Truthy(Separator(e)) /\ Inner(Separator(e)).t = "ref"
          THEN {Inner(Separator(e)).name} ELSE {})

Refs(rules) ==
  UNION {IF rules[k].isArr
         THEN UNION {Referred(rules[k].items[i]) : i \in 1..Len(rules[k].items)}
         ELSE UNION {Referred(rules[k].cases[i].to) : i \in 1..Len(rules[k].cases)}
         : k \in DOMAIN rules}

Resolved(rules) == Refs(rules) \subseteq DOMAIN rules

\* C3: under a grammar whose every name reference names a rule of the table,
\* no call raises an error.
C3_NoError == Resolved(parseRules) => last.exit # "error"

\* C11: pushRule of a name the table refers to and does not hold raises and
\* leaves the State as it was, and a call whose matching loop expects such a
\* name raises instead of returning a style.
C11_UnknownRuleRaises ==
  /\ \A k \in Refs(parseRules) \ DOMAIN parseRules :
       pushRule(parseRules, state, k) = Err(state)
  /\ \A v \in {w \in Views : w.ws = 0 /\ w.tok.found /\ w.tok.kind # "Comment"} :
       LET sealed == Seal(parseRules, state)
           s1 == Levels(Indent(sealed.st, v), v.tok)
           expected == Expected(parseRules, s1, v.tok)
       IN (sealed.out = "ok" /\ s1.rule # Null /\ expected.t = "ref"
             /\ expected.name \notin DOMAIN parseRules)
            => getToken(parseRules, state, v).exit = "error"

\* C4: a call whose matching loop empties the rule stack returns
\* 'invalidchar' and leaves the Invalid frame on top of exactly the snapshot
\* taken before matching (rule-stack fields, prevState chain, levels and
\* indentLevel); the sealing of the next call pops the Invalid frame and
\* leaves that snapshot.
C4_Rollback ==
  last.exit = "mismatch" =>
    /\ last.style = "invalidchar"
    /\ state.kind = "Invalid" /\ state.rule = "Invalid"
    /\ state.step = 0 /\ ~state.needsSeperator
    /\ state.prevState = <<clone(last.backup)>> \o last.backup.prevState
    /\ state.levels = last.backup.levels
    /\ state.indentLevel = last.backup.indentLevel
    /\ popRule(state) = last.backup
    /\ Seal(parseRules, state) = Ok(last.backup)

\* An opening bracket is rejected after frames were popped and a list
\* position skipped: the failed attempt had pushed a level.
C4_Witness ==
  /\ last.exit = "mismatch"
  /\ last.iters >= 2
  /\ last.tok.value = <<"{">>
  /\ last.backup.levels # <<>>
  /\ last.backup.needsSeperator
  /\ state.rule = "Invalid"

\* C5: a call on a comment returns 'comment' and leaves the State it had
\* after its own sealing with only a Comment frame pushed on it; the sealing
\* of the next call pops that frame, so every token after the comment is
\* treated as it would be without the comment; with Document = ["{", ...],
\* "#" then "@" are styled 'comment' then 'invalidchar'.
C5_CommentTransparent ==
  last.exit = "comment" =>
    /\ last.style = "comment"
    /\ state = pushRule(SpecialParseRules, last.backup, "Comment").st
    /\ Seal(parseRules, state) = Ok(last.backup)
    /\ \A v \in Views :
         LET after == getToken(parseRules, state, v)
             without == getToken(parseRules, last.backup, v)
         IN /\ after.style = without.style
            /\ after.exit = without.exit
            /\ after.exit # "diverge" => after.st = without.st
            /\ (gid = "DocList" /\ last.backup = startState(parseRules)
                  /\ v.ws = 0 /\ v.tok.value = <<"@">>)
                 => after.style = "invalidchar"

\* A comment follows a name whose advance was deferred, inside a list.
C5_Witness ==
  /\ last.exit = "comment"
  /\ state.rule = "Comment"
  /\ last.backup.needsSeperator
  /\ Depth(state) >= 2

(***************************************************************************)
(* The State as the next call's matching finds it, and where it stands in   *)
(* a one-rule grammar.                                                      *)
(***************************************************************************)
Sealed(s) == Seal(parseRules, s).st

\* Document is the only open rule, at the given step and separator flag.
InDocument(s, step, sep) ==
  /\ s.kind = "Document" /\ s.rule = "Document"
  /\ s.step = step /\ s.needsSeperator = sep
  /\ Depth(s) = 1 /\ s.prevState[1].rule = Null

\* state.rule is null and no saved frame holds a rule.
EmptyStack(s) ==
  s.rule = Null /\ \A i \in 1..Len(s.prevState) : s.prevState[i].rule = Null

NoInvalidFrame(s) ==
  /\ s.rule # "Invalid"
  /\ \A i \in 1..Len(s.prevState) : s.prevState[i].rule # "Invalid"

\* The streams that hold a token at the cursor.
TokenViews == {v \in Views : v.ws = 0 /\ v.tok.found}

\* C6: with Document = ["{", List(Field, ","), "}"], from the start "{" is
\* styled as punctuation and opens the list; in the list a name is styled as
\* Field declares and asks for a separator; a comma after a name is styled
\* as punctuation and asks for a name again; "}" at the list is styled as
\* punctuation and leaves an empty rule stack.  Hence "{", names separated
\* by single commas, "}" never yields 'invalidchar' and ends with an empty
\* stack.
C6_AcceptsList ==
  gid = "DocList" =>
    \A v \in TokenViews :
      LET now == Sealed(state)
          r == getToken(parseRules, state, v)
          then == Sealed(r.st)
      IN /\ (InDocument(now, 0, FALSE) /\ v.tok.value = <<"{">>)
              => r.style = "punctuation" /\ InDocument(then, 1, FALSE)
         /\ (InDocument(now, 1, FALSE) /\ v.tok.kind = "Name")
              => r.style = "property" /\ InDocument(then, 1, TRUE)
         /\ (InDocument(now, 1, TRUE) /\ v.tok.value = <<",">>)
              => r.style = "punctuation" /\ InDocument(then, 1, FALSE)
         /\ ((InDocument(now, 1, FALSE) \/ InDocument(now, 1, TRUE))
               /\ v.tok.value = <<"}">>)
              => r.style = "punctuation" /\ EmptyStack(r.st) /\ r.st.prevState = <<>>

\* "}" has closed a list in which a name was the latest token.
C6_Witness ==
  /\ gid = "DocList"
  /\ last.exit = "match"
  /\ last.tok.value = <<"}">>
  /\ InDocument(last.backup, 1, TRUE)
  /\ EmptyStack(state)

\* C8: with Document = [A, Optional(B), C], A at the start is styled as A
\* declares in one iteration; C right after A is styled as C declares by the
\* same call that skips the Optional position, which lexes C only, pushes no
\* Invalid frame and leaves the frame complete.
C8_SkipsOptional ==
  gid = "Seq" =>
    \A v \in TokenViews :
      LET now == Sealed(state)
          r == getToken(parseRules, state, v)
      IN /\ (InDocument(now, 0, FALSE) /\ v.tok.kind = "Name")
              => /\ r.style = "keyword" /\ r.exit = "match" /\ r.iters = 1
                 /\ InDocument(Sealed(r.st), 1, FALSE)
         /\ (InDocument(now, 1, FALSE) /\ v.tok.value = <<"}">>)
              => /\ r.style = "punctuation" /\ r.exit = "match"
                 /\ r.iters = 2 /\ r.moved = 1
                 /\ NoInvalidFrame(r.st)
                 /\ EmptyStack(Sealed(r.st))

\* C was matched by a call that found the rule at its Optional position.
C8_Witness ==
  /\ gid = "Seq"
  /\ last.exit = "match"
  /\ last.tok.value = <<"}">>
  /\ last.iters = 2
  /\ InDocument(last.backup, 1, FALSE)
  /\ EmptyStack(state)

(***************************************************************************)
(* Resumability                                                            *)
(***************************************************************************)
\* The rule-stack fields of a frame, and the rule stack of a State.
Frame(f) ==
  [kind |-> f.kind, name |-> f.name, type |-> f.type, rule |-> f.rule,
   step |-> f.step, needsSeperator |-> f.needsSeperator,
   needsAdvance |-> f.needsAdvance]

RuleStack(s) ==
  <<Frame(s)>> \o [i \in 1..Len(s.prevState) |-> Frame(s.prevState[i])]

\* C7: the host that resumes on new streams with the carried State gets, at
\* every call, the style the host that reads the buffer as one stream gets,
\* and the two States hold the same rule stack; with
\* Document = ["{", List(Field, ","), "}"] a State left after "{", a name
\* and "," has Document open at its List step over a non-empty chain, and a
\* new stream holding a name and "}" completes it with an empty stack.
C7_Resumable ==
  /\ last.style = last.wholeStyle
  /\ RuleStack(state) = RuleStack(whole)
  /\ (gid = "DocList" /\ last.exit = "match" /\ last.tok.value = <<",">>)
       => /\ state.rule = "Document" /\ state.step = 1 /\ state.prevState # <<>>
          /\ isList(parseRules, state) = "true"
          /\ \A v \in {x \in TokenViews : x.sol /\ x.tok.kind = "Name"} :
               \A w \in {x \in TokenViews : x.tok.value = <<"}">>} :
                 LET r == getToken(parseRules, state, v)
                     q == getToken(parseRules, r.st, w)
                 IN /\ r.style = "property" /\ q.style = "punctuation"
                    /\ EmptyStack(q.st)

\* The resumed host has closed the document, and its State differs from the
\* other host's in the indentation it read from its own streams.
C7_Witness ==
  /\ gid = "DocList"
  /\ last.resumed
  /\ last.exit = "match"
  /\ EmptyStack(state)
  /\ state.indentLevel # whole.indentLevel

(***************************************************************************)
(* Stack balance                                                           *)
(***************************************************************************)
AtList(rules, f) == f.rule # Null /\ isList(rules, f) = "true"

\* The frame is being worked on: an array before its end, a fork at step 0.
InProgress(rules, f) ==
  IF IsArray(rules, f.rule) THEN f.step < RuleLen(rules, f.rule) ELSE f.step = 0

\* One advance completes the frame.
Finishes(rules, f) ==
  /\ f.rule # Null
  /\ ~AtList(rules, f)
  /\ ~(IsArray(rules, f.rule) /\ f.step + 1 < RuleLen(rules, f.rule))

\* after is before with its top frame and every parent that the completion
\* completes in turn popped: the nearest frame that stays open is on top, at
\* the step it had if that is a List position, one step further if not, over
\* the chain it had.
Balanced(rules, before, after) ==
  LET chain == before.prevState
      stops == {j \in 1..Len(chain) : ~Finishes(rules, chain[j])}
  IN (Finishes(rules, before) /\ stops # {}) =>
       LET j == Min(stops)
           parent == chain[j]
       IN /\ Depth(after) = Len(chain) - j
          /\ after.prevState = SubSeq(chain, j + 1, Len(chain))
          /\ after.kind = parent.kind /\ after.rule = parent.rule
          /\ after.name = parent.name /\ after.type = parent.type
          /\ AtList(rules, parent) => after.step = parent.step
          /\ (parent.rule # Null /\ ~AtList(rules, parent))
               => after.step = parent.step + 1 /\ ~after.needsSeperator
          /\ after.rule # Null => InProgress(rules, after)
          /\ \A i \in 1..Len(after.prevState) :
               after.prevState[i].rule # Null
                 => InProgress(rules, after.prevState[i])

\* The States in which a call advances a rule: the State given with its
\* advance deferred, the State after sealing, and the State in which the
\* matching loop matched a terminal.
Advancing ==
  {[state EXCEPT !.needsAdvance = FALSE], Sealed(state)}
    \cup {MatchLoop(parseRules, Levels(Indent(Sealed(state), v), v.tok), v.tok, 0).at :
             v \in {w \in TokenViews : w.tok.kind # "Comment"}}

\* C9: whenever an advance completes the top frame, the stack is popped to
\* the nearest parent that is not completed in turn; a parent at a List
\* position is left on top at that same step, at the depth the completed
\* rule was pushed from, and no completed frame stays on the stack.
C9_StackBalance ==
  \A s \in Advancing : \A successful \in BOOLEAN :
    LET a == advanceRule(parseRules, s, successful)
    IN (s.rule # Null /\ a.out = "ok") => Balanced(parseRules, s, a.st)

\* A closing bracket completed a rule two frames above a List position.
C9_Witness ==
  /\ last.exit = "match"
  /\ last.tok.value = <<"}">>
  /\ Depth(state) + 2 <= Depth(last.backup)
  /\ AtList(parseRules, state)
  /\ state.step = last.backup.prevState[Depth(last.backup) - Depth(state)].step

(***************************************************************************)
(* pushRule / popRule                                                      *)
(***************************************************************************)
\* What may be done to a child frame before it is popped.
Processed(c) ==
  {c, [c EXCEPT !.step = @ + 1], [c EXCEPT !.needsSeperator = ~@],
   [c EXCEPT !.needsAdvance = TRUE]}
    \cup {update(c, v.tok) : v \in TokenViews}
    \cup {[c EXCEPT !.type = v.tok.value] : v \in TokenViews}

Restores(s, q) ==
  /\ q.kind = s.kind /\ q.name = s.name /\ q.type = s.type
  /\ q.rule = s.rule /\ q.step = s.step
  /\ q.needsSeperator = s.needsSeperator
  /\ q.prevState = s.prevState

IsSuffix(a, b) == Len(a) <= Len(b) /\ a = SubSeq(b, Len(b) - Len(a) + 1, Len(b))

\* C10: in every State the parser reaches, pushing any rule, processing the
\* child frame and popping restores kind, name, type, rule, step, the
\* separator flag and the prevState link; pushRule saves a copy of the frame
\* on the chain as it was, popRule, advanceRule and unsuccessful leave a
\* suffix of the chain and the update hook leaves the chain; popRule on a
\* State with no saved frame returns it unchanged.
C10_PushPopRestores ==
  /\ \A tables \in {parseRules, SpecialParseRules} : \A k \in DOMAIN tables :
       LET c == pushRule(tables, state, k).st
       IN /\ c.prevState = <<clone(state)>> \o state.prevState
          /\ \A d \in Processed(c) : Restores(state, popRule(d))
  /\ IsSuffix(popRule(state).prevState, state.prevState)
  /\ \A successful \in BOOLEAN :
       state.rule # Null =>
         IsSuffix(advanceRule(parseRules, state, successful).st.prevState,
                  state.prevState)
  /\ IsSuffix(unsuccessful(parseRules, state).st.prevState, state.prevState)
  /\ \A v \in TokenViews : update(state, v.tok).prevState = state.prevState
  /\ state.prevState = <<>> => popRule(state) = state

\* A sentinel frame was pushed on a frame whose separator flag is set and
\* whose name an update hook has written.
C10_Witness ==
  /\ state.rule \in {"Invalid", "Comment"}
  /\ Depth(state) >= 2
  /\ Head(state.prevState).needsSeperator
  /\ Restores(last.backup, popRule(state))

\* C12: a call on white space returns 'ws' and leaves the State that its
\* sealing left, with indentLevel recomputed when the stream is at the start
\* of a line: no frame is pushed and levels is as it was given.
C12_WhitespaceOnly ==
  \A v \in {w \in Views : w.ws > 0} :
    LET sealed == Seal(parseRules, state)
        r == getToken(parseRules, state, v)
    IN sealed.out = "ok" =>
         /\ r.style = "ws" /\ r.exit = "ws" /\ r.moved = v.ws
         /\ r.st = [sealed.st EXCEPT !.indentLevel =
                      IF v.sol THEN v.indentation \div TabSize ELSE @]
         /\ IsSuffix(r.st.prevState, state.prevState)
         /\ r.st.levels = state.levels

\* White space at the start of an indented line, in a list that awaits its
\* separator.
C12_Witness ==
  /\ last.exit = "ws"
  /\ last.sol
  /\ state.indentLevel > 0
  /\ state.needsSeperator
  /\ ~state.needsAdvance

\* C13: a match of a token that is not punctuation leaves the State in which
\* the terminal matched with only needsAdvance set; a match of punctuation
\* leaves that State advanced and the flag clear; and a State with the flag
\* set is, in the next call and whatever that call reads, first advanced
\* once with the flag cleared, so that the flag is set after the call only
\* if the call itself matched a token that is not punctuation.
C13_DeferredAdvance ==
  /\ \A v \in {w \in TokenViews : w.tok.kind # "Comment"} :
       LET sealed == Seal(parseRules, state)
           m == MatchLoop(parseRules, Levels(Indent(sealed.st, v), v.tok), v.tok, 0)
           r == getToken(parseRules, state, v)
       IN (sealed.out = "ok" /\ r.exit = "match") =>
            /\ ~m.at.needsAdvance
            /\ v.tok.kind # "Punctuation"
                 => r.st = [m.at EXCEPT !.needsAdvance = TRUE]
            /\ v.tok.kind = "Punctuation"
                 => r.st = advanceRule(parseRules, m.at, TRUE).st /\ ~r.st.needsAdvance
  /\ state.needsAdvance =>
       LET adv == advanceRule(parseRules, [state EXCEPT !.needsAdvance = FALSE], TRUE)
       IN \A v \in Views :
            LET r == getToken(parseRules, state, v)
            IN IF adv.out # "ok" THEN r.exit = adv.out
               ELSE /\ r.backup = Indent(adv.st, v)
                    /\ r.exit = "ws" => r.st = Indent(adv.st, v)
                    /\ r.exit \in {"comment", "nolex", "mismatch"}
                         => popRule(r.st) = Indent(adv.st, v)
                    /\ (r.exit # "diverge" /\ r.st.needsAdvance)
                         => r.exit = "match" /\ v.tok.kind # "Punctuation"

\* A name has matched below the root rule and its advance is pending.
C13_Witness ==
  /\ state.needsAdvance
  /\ last.exit = "match"
  /\ last.tok.kind = "Name"
  /\ Depth(state) >= 2
  /\ state.step = last.backup.step

(***************************************************************************)
(* Lists with a separator                                                   *)
(***************************************************************************)
\* The frame of the State a at the depth of the State s.
FrameAt(a, s) ==
  IF Depth(a) = Depth(s) THEN a ELSE a.prevState[Depth(a) - Depth(s)]

\* The State a is in the list that s has open on top: the frame of s is on
\* the stack of a, at its depth and step, over the same chain.
InListOf(a, s) ==
  /\ Depth(a) >= Depth(s)
  /\ FrameAt(a, s).rule = s.rule /\ FrameAt(a, s).step = s.step
  /\ SubSeq(a.prevState, Depth(a) - Depth(s) + 1, Depth(a)) = s.prevState

SeparatedList(s) ==
  /\ AtList(parseRules, s)
  /\ Mandatory(Separator(At(parseRules, s)))

\* C14: at a List position with a mandatory separator, a token that matches
\* inside the list while the separator flag is pending is the separator,
\* matched by the list's own frame, and leaves the flag clear; a token that
\* matches inside the list while the flag is clear is matched as an element,
\* never as the separator, and the flag is pending once the element is
\* complete; any other token that matches does so after the list is closed.
C14_Alternation ==
  LET s == Sealed(state)
      sep == Separator(At(parseRules, s))
  IN (s.rule # Null /\ SeparatedList(s)) =>
       \A v \in {w \in TokenViews : w.tok.kind # "Comment"} :
         LET m == MatchLoop(parseRules, Levels(Indent(s, v), v.tok), v.tok, 0)
             then == Sealed(m.st)
         IN (m.out = "match" /\ InListOf(m.at, s)) =>
              IF s.needsSeperator
              THEN /\ Depth(m.at) = Depth(s) /\ m.at.needsSeperator
                   /\ Matches(sep, v.tok)
                   /\ InListOf(then, s) /\ Depth(then) = Depth(s)
                   /\ ~then.needsSeperator
              ELSE /\ ~FrameAt(m.at, s).needsSeperator
                   /\ Depth(m.at) = Depth(s) => Matches(OfRule(At(parseRules, s)), v.tok)
                   /\ (InListOf(then, s) /\ Depth(then) = Depth(s))
                        => then.needsSeperator

\* A second name without a comma between is reported invalid.
C14_Witness ==
  /\ last.exit = "mismatch"
  /\ last.tok.kind = "Name"
  /\ SeparatedList(last.backup)
  /\ last.backup.needsSeperator

(***************************************************************************)
(* Failure recovery                                                         *)
(***************************************************************************)
\* The States in which the matching loop, given s and a token, invokes
\* unsuccessful, within n iterations.
RECURSIVE Fails(_, _, _, _)
Fails(rules, s, tok, n) ==
  IF s.rule = Null \/ n = 0 THEN {}
  ELSE LET expected == Expected(rules, s, tok)
       IN IF expected.t = "ref"
          THEN IF Has(rules, expected.name)
               THEN Fails(rules, pushRule(rules, s, expected.name).st, tok, n - 1)
               ELSE {}
          ELSE IF expected.t = "term" /\ Matches(expected, tok) THEN {}
          ELSE {s} \cup (IF unsuccessful(rules, s).out = "ok"
                         THEN Fails(rules, unsuccessful(rules, s).st, tok, n - 1)
                         ELSE {})

\* The States in which a call on the State given invokes unsuccessful.
Failing ==
  UNION {Fails(parseRules, Levels(Indent(Sealed(state), v), v.tok), v.tok, MaxIter) :
           v \in {w \in TokenViews : w.tok.kind # "Comment"}}

\* s with its j topmost frames popped.
RECURSIVE Pop(_, _)
Pop(s, j) == IF j = 0 THEN s ELSE Pop(popRule(s), j - 1)

\* The frames of s, counted from the top (0), whose position is an Optional
\* or List marker.
Markers(s) ==
  {j \in 0..Depth(s) :
     LET f == Pop(s, j)
     IN f.rule # Null /\ IsArray(parseRules, f.rule)
        /\ Truthy(OfRule(At(parseRules, f)))}

\* The unwinding stops at the nearest marker, or empties the stack.
StopsAtNearest(s, u) ==
  IF Markers(s) = {} THEN EmptyStack(u)
  ELSE IsSuffix(u.prevState, Pop(s, Min(Markers(s))).prevState)

\* t has been moved past its position: its frame is one step further, or is
\* completed and popped.
Passed(t, u) ==
  IF t.step + 1 < RuleLen(parseRules, t.rule)
  THEN u = [t EXCEPT !.step = t.step + 1, !.needsSeperator = FALSE]
  ELSE Depth(u) < Depth(t)

\* The pending separator of the List position is optional.
OptionalSeparatorPending(t) ==
  /\ AtList(parseRules, t)
  /\ t.needsSeperator
  /\ Truthy(OfRule(Separator(At(parseRules, t))))

\* C15 (as first stated): unsuccessful always moves the frame it stops at
\* past its marker.
C15_AlwaysPasses ==
  \A s \in Failing :
    LET u == unsuccessful(parseRules, s)
    IN (u.out = "ok" /\ Markers(s) # {}) =>
         /\ StopsAtNearest(s, u.st)
         /\ Passed(Pop(s, Min(Markers(s))), u.st)

\* C15: unsuccessful pops to the nearest frame, counted from the top, whose
\* position is an Optional or List marker, and the stack ends empty when
\* there is none; it moves that frame past the marker, except at a List
\* position whose optional separator was pending, where it clears the flag
\* and leaves the frame at the List position for a further element.
C15_Recovery ==
  \A s \in Failing :
    LET u == unsuccessful(parseRules, s)
    IN u.out = "ok" =>
         /\ StopsAtNearest(s, u.st)
         /\ Markers(s) # {} =>
              LET t == Pop(s, Min(Markers(s)))
              IN IF OptionalSeparatorPending(t)
                 THEN u.st = [t EXCEPT !.needsSeperator = FALSE]
                 ELSE Passed(t, u.st)

\* A second name was matched without a comma: the optional separator was
\* pending and the list position was kept.
C15_Witness ==
  /\ last.exit = "match"
  /\ last.tok.kind = "Name"
  /\ last.iters = 2
  /\ OptionalSeparatorPending(last.backup)
  /\ state.step = last.backup.step

(***************************************************************************)
(* Forking rules                                                            *)
(***************************************************************************)
IsFork(f) == f.rule # Null /\ ~IsArray(parseRules, f.rule)

\* C16: a selector is evaluated only on a frame that the same call pushed
\* and only at step 0: after sealing the top frame is never a forking rule,
\* neither unsuccessful nor advanceRule returns to the loop with a forking
\* rule on top, and a forking frame saved on the chain stays at step 0 under
\* the expansion it selected until it is popped.
C16_ForkOnce ==
  /\ ~IsFork(state) /\ ~IsFork(Sealed(state))
  /\ \A i \in 1..Depth(state) : IsFork(state.prevState[i]) => state.prevState[i].step = 0
  /\ \A s \in Failing :
       LET u == unsuccessful(parseRules, s)
       IN /\ IsFork(s) => s.step = 0
          /\ u.out = "ok" => ~IsFork(u.st)
  /\ \A s \in Advancing : \A successful \in BOOLEAN :
       LET a == advanceRule(parseRules, s, successful)
       IN (s.rule # Null /\ a.out = "ok") => ~IsFork(a.st)

\* A name matched in the expansion a forking rule selected: the forking
\* frame is saved under it.
C16_Witness ==
  /\ last.exit = "match"
  /\ last.tok.kind = "Name"
  /\ Depth(state) >= 2
  /\ IsFork(state.prevState[1])
  /\ state.prevState[1].step = 0

(***************************************************************************)
(* The lexer applied to a stream                                           *)
(***************************************************************************)
InitLex ==
  /\ gid = "DocList"
  /\ parseRules = ParseRules(gid)
  /\ state = startState(parseRules)
  /\ whole = startState(parseRules)
  /\ last = NoCall
  /\ stream \in {[lexRules |-> t, text |-> x, start |-> 0, pos |-> 0, lexed |-> FALSE, token |-> NoToken] :
                   <<t, x>> \in LexTables \X Texts}

\* lex(lexRules, stream) at the cursor of a stream with input remaining.
Lex ==
  /\ stream.pos < Len(stream.text)
  /\ \E token \in {lex(stream.lexRules, stream.text, stream.pos)} :
       stream' = [stream EXCEPT !.start = stream.pos, !.pos = stream.pos + token.len,
                                !.lexed = TRUE, !.token = token]
  /\ UNCHANGED <<gid, parseRules, state, whole, last>>

NextLex == Lex

SpecLex == InitLex /\ [][NextLex]_vars

\* The length of the prefix a pattern consumes at the cursor.
Consumes(text, pos, pat) == IF MatchLen(text, pos, pat) = NoMatch THEN 0 ELSE MatchLen(text, pos, pat)

\* C17: lex returns the token of the first rule in table order whose pattern
\* consumes a non-empty prefix at the cursor, even when a later rule would
\* consume more, and moves the stream by the length of that match; when no
\* rule consumes anything it returns no token and leaves the position alone.
C17_FirstNonEmpty ==
  stream.lexed =>
    LET rules == stream.lexRules
        hits == {i \in 1..Len(rules) : Consumes(stream.text, stream.start, rules[i]) > 0}
    IN IF hits = {}
       THEN stream.token = NoToken /\ stream.pos = stream.start
       ELSE LET n == Consumes(stream.text, stream.start, rules[Min(hits)])
            IN /\ stream.token.found
               /\ stream.token.kind = rules[Min(hits)].kind
               /\ stream.token.value = SubSeq(stream.text, stream.start + 1, stream.start + n)
               /\ stream.pos = stream.start + n

(***************************************************************************)
(* Bracket depth                                                           *)
(***************************************************************************)
\* Sessions over nested braces, whose lines may begin with a deep margin.
InitIndent == Start({"Braces", "Seq", "DocList"})

TokenIndented == TokenOn(Views \cup MarginViews)

NextIndent == StartState \/ TokenIndented

SpecIndent == InitIndent /\ [][NextIndent]_vars

Opening(tok) == tok.kind = "Punctuation" /\ tok.value[1] \in {"{", "(", "["}
Closing(tok) == tok.kind = "Punctuation" /\ tok.value[1] \in {"}", ")", "]"}

\* C18: with the State of the snapshot (the level of the line already
\* recomputed) as reference, a call that accepts an opening bracket appends
\* indentLevel + 1 to levels; a call that accepts a closing bracket removes
\* the last entry of levels (none when levels is empty), does not raise
\* indentLevel, and leaves indentLevel <= last(levels) when levels is not
\* empty; every other call that returns leaves levels as they were.
C18_BracketDepth ==
  Returned =>
    LET before == last.backup
    IN IF last.exit = "match" /\ Opening(last.tok)
       THEN /\ state.levels = Append(before.levels, before.indentLevel + 1)
            /\ state.indentLevel = before.indentLevel
       ELSE IF last.exit = "match" /\ Closing(last.tok)
       THEN /\ state.levels = SubSeq(before.levels, 1, Len(before.levels) - 1)
            /\ state.indentLevel <= before.indentLevel
            /\ state.levels # <<>> => state.indentLevel <= state.levels[Len(state.levels)]
       ELSE state.levels = before.levels

\* A closing bracket was accepted on a line indented deeper than the
\* enclosing bracket's level, and the level was lowered to it.
C18_Witness ==
  /\ last.exit = "match" /\ Closing(last.tok)
  /\ state.levels # <<>>
  /\ state.indentLevel < last.backup.indentLevel
  /\ state.indentLevel = state.levels[Len(state.levels)]

(***************************************************************************)
(* Sentinel frames                                                         *)
(***************************************************************************)
Sentinels == DOMAIN SpecialParseRules

\* No frame of s, the top one included, is a sentinel.
NoSentinel(s) ==
  /\ s.rule \notin Sentinels
  /\ \A i \in 1..Depth(s) : s.prevState[i].rule \notin Sentinels

\* C19: when a call has returned, a sentinel frame (Invalid, Comment) is on
\* the stack exactly when the call returned 'invalidchar' or 'comment', there
\* is one only and it is the top frame, and needsAdvance is false under it;
\* the next call, whatever its stream holds, first pops it (nothing else of
\* the State changes), so the State it then works on, pushes on and
\* snapshots holds no sentinel.
C19_SentinelTransient ==
  /\ \A i \in 1..Depth(state) : state.prevState[i].rule \notin Sentinels
  /\ Returned => (state.rule \in Sentinels <=> last.exit \in {"nolex", "comment", "mismatch"})
  /\ state.rule \in Sentinels =>
       /\ ~state.needsAdvance
       /\ Seal(parseRules, state) = Ok(popRule(state))
       /\ NoSentinel(Sealed(state))
       /\ \A v \in Views : getToken(parseRules, state, v).backup = Indent(popRule(state), v)

\* A sentinel frame pushed over open rules by a call whose token no lex rule
\* or no open rule accepted.
C19_Witness ==
  /\ last.exit \in {"nolex", "mismatch"}
  /\ state.rule = "Invalid"
  /\ Depth(state) >= 2
  /\ ~EmptyStack(popRule(state))

(***************************************************************************)
(* After the root rule has completed                                       *)
(***************************************************************************)
\* The root rule has completed: once the call that follows has sealed
\* (popped a sentinel, or performed the deferred advance that completes
\* Document), no rule is open.
Completed(s) == Seal(parseRules, s).out = "ok" /\ EmptyStack(Sealed(s))

\* C20: once the root rule has completed, every call on the State returns
\* 'ws' for white space, 'comment' for a comment and 'invalidchar' for any
\* other token or unlexed run, and leaves a State in which the root rule is
\* still completed: no call opens a rule again, only startState does.
C20_StaysEmpty ==
  /\ ~EmptyStack(startState(parseRules))
  /\ Completed(state) =>
       \A v \in Views :
         LET r == getToken(parseRules, state, v)
         IN /\ r.exit \in {"ws", "nolex", "comment", "mismatch"}
            /\ r.style = IF v.ws > 0 THEN "ws"
                         ELSE IF v.tok.found /\ v.tok.kind = "Comment" THEN "comment"
                         ELSE "invalidchar"
            /\ Completed(r.st)
            /\ r.exit # "ws" => r.st.rule \in Sentinels /\ EmptyStack(popRule(r.st))

\* A token lexed after the root rule had completed and every bracket had
\* closed: the call returned 'invalidchar' over an empty stack.
C20_Witness ==
  /\ last.exit = "mismatch" /\ last.style = "invalidchar"
  /\ EmptyStack(last.backup)
  /\ Completed(state)
  /\ state.levels = <<>> /\ last.tok.kind \in {"Name", "Punctuation"}

====
